---- MODULE Spec2Model ----
(***************************************************************************)
(* ElasticsearchDB (embedchain/vectordb/elasticsearch_db.py): the adapter  *)
(* that keeps texts, metadata and embeddings in one Elasticsearch index.   *)
(* The model holds the store the adapter talks to (its indices, each with  *)
(* the documents written and the documents visible to search), the adapter *)
(* instance and the position of a caller inside add().  get, query and     *)
(* count change nothing: each is the set of results the store may hand     *)
(* back in the current state.                                              *)
(***************************************************************************)
EXTENDS Integers, Sequences, FiniteSets, TLC

VARIABLES
  store,    \* index name -> [mapping, docs (written), searchable (visible to search)]
  adapter,  \* the ElasticsearchDB instance: None or <<[es_index, vector_dim]>>
  pc,       \* the caller: "idle", inside add ("bulk", "refresh"), or "returned"
  frame,    \* the arguments and locals of the last __init__/add/reset
  before,   \* the store as it was when that call began
  calls,    \* the calls it made to embedding_fn and to the store, in order
  ret,      \* how it ended: "ok", "running" (inside add) or the error raised
  added,    \* per index, since its creation: id -> the last record the store took
  ops       \* number of __init__/add/reset calls made so far

vars == <<store, adapter, pc, frame, before, calls, ret, added, ops>>

\* ------------------------------------------------------------ bounds
MaxOps == 2
MaxBatch == 2
MaxQueries == 2
MaxN == 2

\* ------------------------------------------------------------ values
\* An optional argument: None, or the value in a one-element tuple.
None == <<>>
Some(x) == <<x>>

Min(a, b) == IF a <= b THEN a ELSE b

\* The size Elasticsearch's search uses when the request names none.
DefaultSearchSize == 10

\* Ids are strings in the code; only their identity matters, so numbers stand
\* for them.  SmallIds take part in every combination; BigIds are written
\* together, by one add of more documents than a default search returns.
SmallIds == {1, 2}
BigIds == 1..(DefaultSearchSize + 1)
UnknownId == DefaultSearchSize + 2
BigProbe == [i \in 1..(DefaultSearchSize + 2) |-> i]

Texts == {"t1", "t2", "tw"}

\* metadata / where: a mapping from keys to values.
EmptyMap == [k \in {} |-> ""]
AppMap(a) == [k \in {"app_id"} |-> a]
Metas == {EmptyMap, AppMap("X")}
Wheres == {EmptyMap, AppMap("X"), AppMap("Y")}

RECURSIVE SeqsUpTo(_, _)
SeqsUpTo(S, n) ==
  IF n = 0 THEN {<<>>}
  ELSE LET shorter == SeqsUpTo(S, n - 1)
       IN shorter \cup {Append(s, x) : s \in {t \in shorter : Len(t) = n - 1}, x \in S}

Range(s) == {s[i] : i \in 1..Len(s)}

\* ------------------------------------------------------------ embedding_fn
\* The caller's embedding function on one text.  "tw" is a text whose vector
\* does not have the collection's dimension.
Embed(text) ==
  CASE text = "t1" -> <<1, 0>>
    [] text = "t2" -> <<1, 1>>
    [] OTHER -> <<0, 1, 0>>

embedding_fn(documents) == [i \in 1..Len(documents) |-> Embed(documents[i])]

\* ------------------------------------------------------------ the store
\* f"{collection_name}_{self.vector_dim}"
IndexName(collection_name, vector_dim) ==
  collection_name \o "_" \o ToString(vector_dim)

\* index_settings: text, and a dense_vector of vector_dim dimensions.
IndexSettings(vector_dim) == [type |-> "dense_vector", dims |-> vector_dim]
\* The mapping of an index the store creates by itself on a first write.
DynamicMapping == [type |-> "dynamic", dims |-> 0]

NoDocs == [i \in {} |-> 0]
NewIndex(mapping) == [mapping |-> mapping, docs |-> NoDocs, searchable |-> NoDocs]

IndicesExists(st, index) == index \in DOMAIN st

IndicesCreate(st, index, mapping) ==
  [n \in DOMAIN st \cup {index} |-> IF n = index THEN NewIndex(mapping) ELSE st[n]]

IndicesDelete(st, index) == [n \in DOMAIN st \ {index} |-> st[n]]

\* Faulty variant: a refresh that makes nothing visible.
IndicesRefreshNothing(st, index) == st

IndicesRefresh(st, index) ==
  [st EXCEPT ![index] = [mapping |-> @.mapping, docs |-> @.docs, searchable |-> @.docs]]

\* A dense_vector field takes only vectors of its dimension.
Rejected(mapping, doc) ==
  mapping.type = "dense_vector" /\ Len(doc.source.embeddings) # mapping.dims

Put(docs, id, source) ==
  [i \in DOMAIN docs \cup {id} |-> IF i = id THEN source ELSE docs[i]]

\* Faulty variant: an index operation that keeps the document already stored
\* under the id.
IndexOneKeepsOld(index, doc) ==
  IF Rejected(index.mapping, doc) \/ doc.id \in DOMAIN index.docs THEN index
  ELSE [index EXCEPT !.docs = Put(@, doc.id, doc.source)]

\* One index operation of a bulk request: the document replaces whatever the
\* index holds under its id; a rejected document changes nothing.
IndexOne(index, doc) ==
  IF Rejected(index.mapping, doc) THEN index
  ELSE [index EXCEPT !.docs = Put(@, doc.id, doc.source)]

RECURSIVE IndexAll(_, _)
IndexAll(index, docs) ==
  IF docs = <<>> THEN index
  ELSE IndexAll(IndexOne(index, Head(docs)), Tail(docs))

\* helpers.bulk: nothing is sent for an empty list; a missing index is created
\* by the store with a dynamic mapping; every document is tried in order.
Bulk(st, index, docs) ==
  IF docs = <<>> THEN st
  ELSE LET st1 == IF IndicesExists(st, index) THEN st
                  ELSE IndicesCreate(st, index, DynamicMapping)
       IN [st1 EXCEPT ![index] = IndexAll(@, docs)]

BulkErrors(st, index, docs) ==
  LET mapping == IF IndicesExists(st, index) THEN st[index].mapping ELSE DynamicMapping
  IN {i \in 1..Len(docs) : Rejected(mapping, docs[i])}

\* ------------------------------------------------------------ search
\* {"term": {"metadata.app_id": app_id}}
TermAppId(source, app_id) ==
  "app_id" \in DOMAIN source.metadata /\ source.metadata["app_id"] = app_id

\* get's query: ids in `ids`, and the app_id term when `where` has the key.
GetMatches(index, ids, where) ==
  {i \in DOMAIN index.searchable :
     /\ i \in Range(ids)
     /\ "app_id" \in DOMAIN where => TermAppId(index.searchable[i], where["app_id"])}

\* search without a size: the store returns DefaultSearchSize hits at most.
SearchDefault(matches) ==
  {h \in SUBSET matches : Cardinality(h) = Min(Cardinality(matches), DefaultSearchSize)}

\* query's inner query: the app_id term replaces "the text field exists",
\* which every document written by add satisfies.
QueryMatches(index, where) ==
  {i \in DOMAIN index.searchable :
     IF "app_id" \in DOMAIN where
     THEN TermAppId(index.searchable[i], where["app_id"])
     ELSE TRUE}

Dot(u, v) == IF Len(u) = 2 THEN u[1] * v[1] + u[2] * v[2]
             ELSE u[1] * v[1] + u[2] * v[2] + u[3] * v[3]

Sign(x) == IF x > 0 THEN 1 ELSE IF x < 0 THEN -1 ELSE 0

\* cosineSimilarity(q, u) + 1.0 <= cosineSimilarity(q, v) + 1.0, in integers:
\* cos(q,u) <= cos(q,v) iff sgn(q.u)(q.u)^2 |v|^2 <= sgn(q.v)(q.v)^2 |u|^2.
ScoreLE(q, u, v) ==
  Sign(Dot(q, u)) * Dot(q, u) * Dot(q, u) * Dot(v, v)
    <= Sign(Dot(q, v)) * Dot(q, v) * Dot(q, v) * Dot(u, u)

\* The best-scoring documents first, size of them at most; equal scores come
\* in an order the store chooses.  (The score depends on the embeddings alone,
\* so the best documents are those with a best-scoring embedding.)
RECURSIVE TopHits(_, _, _, _)
TopHits(searchable, matches, q, size) ==
  IF size = 0 \/ matches = {} THEN {<<>>}
  ELSE LET vectors == {searchable[i].embeddings : i \in matches}
           top == {u \in vectors : \A v \in vectors : ScoreLE(q, v, u)}
           best == {i \in matches : searchable[i].embeddings \in top}
       IN UNION {{<<b>> \o rest : rest \in TopHits(searchable, matches \ {b}, q, size - 1)}
                 : b \in best}

\* The script fails on a document whose embeddings field is no dense_vector of
\* the query vector's dimension.
ScriptFails(index, q) ==
  index.mapping.type # "dense_vector" \/ index.mapping.dims # Len(q)

\* ------------------------------------------------------------ state
Call(name, arg) == [call |-> name, arg |-> arg]
Ret(op, status) == [op |-> op, status |-> status]

es_index == adapter[1].es_index

\* The state after ElasticsearchDB(es_config, embedding_fn, 2, "c") on an empty store.
Init ==
  /\ store = IndicesCreate([n \in {} |-> 0], IndexName("c", 2), IndexSettings(2))
  /\ adapter = Some([es_index |-> IndexName("c", 2), vector_dim |-> 2])
  /\ pc = "returned"
  /\ frame = [op |-> "__init__", es_config |-> Some("given"), embedding_fn |-> Some("given"),
              vector_dim |-> Some(2), collection_name |-> Some("c")]
  /\ before = [n \in {} |-> 0]
  /\ calls = <<Call("indices.exists", IndexName("c", 2)),
               Call("indices.create", IndexName("c", 2))>>
  /\ ret = Ret("__init__", "ok")
  /\ added = [n \in {IndexName("c", 2)} |-> NoDocs]
  /\ ops = 0

\* A caller may start __init__, add or reset.
CanCall == pc = "idle" /\ ops < MaxOps

\* ------------------------------------------------------------ __init__
CollectionNames == {None, Some(""), Some("c")}
VectorDims == {None, Some(2)}
Given == {None, Some("given")}

\* Faulty variant: __init__ without the existence check.
AlwaysCreate(st, index) == TRUE

\* if not self.client.indices.exists(index=self.es_index)
MustCreate(st, index) == ~IndicesExists(st, index)

Construct(es_config, embedding_fn_arg, vector_dim, collection_name) ==
  /\ CanCall
  /\ ops' = ops + 1
  /\ pc' = "returned"
  /\ before' = store
  /\ frame' = [op |-> "__init__", es_config |-> es_config, embedding_fn |-> embedding_fn_arg,
               vector_dim |-> vector_dim, collection_name |-> collection_name]
  /\ IF \/ embedding_fn_arg = None
        \/ es_config = None
        \/ vector_dim = None
        \/ collection_name = None
     THEN /\ ret' = Ret("__init__", "ValueError")
          /\ calls' = <<>>
          /\ UNCHANGED <<store, adapter, added>>
     ELSE LET index == IndexName(collection_name[1], vector_dim[1])
          IN /\ adapter' = Some([es_index |-> index, vector_dim |-> vector_dim[1]])
             /\ IF ~MustCreate(store, index)
                THEN /\ calls' = <<Call("indices.exists", index)>>
                     /\ ret' = Ret("__init__", "ok")
                     /\ UNCHANGED <<store, added>>
                ELSE /\ calls' = <<Call("indices.exists", index), Call("indices.create", index)>>
                     /\ IF IndicesExists(store, index)
                        THEN /\ ret' = Ret("__init__", "RequestError")
                             /\ UNCHANGED <<store, added>>
                        ELSE /\ ret' = Ret("__init__", "ok")
                             /\ store' = IndicesCreate(store, index, IndexSettings(vector_dim[1]))
                             /\ added' = [n \in DOMAIN added \cup {index} |->
                                            IF n = index THEN NoDocs ELSE added[n]]

\* ------------------------------------------------------------ add
\* Faulty variant: each record gets the metadata of the mirrored position.
ZipMirrorsMetadata(ids, documents, metadatas, embeddings) ==
  LET n == Min(Min(Len(ids), Len(documents)), Min(Len(metadatas), Len(embeddings)))
  IN [i \in 1..n |->
        [id |-> ids[i],
         source |-> [text |-> documents[i], metadata |-> metadatas[n + 1 - i],
                     embeddings |-> embeddings[i]]]]

\* zip(ids, documents, metadatas, embeddings): as long as the shortest.
Zip(ids, documents, metadatas, embeddings) ==
  [i \in 1..Min(Min(Len(ids), Len(documents)), Min(Len(metadatas), Len(embeddings))) |->
     [id |-> ids[i],
      source |-> [text |-> documents[i], metadata |-> metadatas[i],
                  embeddings |-> embeddings[i]]]]

\* The lists a caller passes: documents with their metadatas, and ids of any
\* length up to MaxBatch; or BigIds, each with the same text and metadata.
Items == {<<"t1", EmptyMap>>, <<"t2", AppMap("X")>>, <<"tw", EmptyMap>>}
SmallLists ==
  {<<[i \in 1..Len(items) |-> items[i][1]], [i \in 1..Len(items) |-> items[i][2]], ids>> :
     items \in SeqsUpTo(Items, MaxBatch), ids \in SeqsUpTo(SmallIds, MaxBatch)}
BigLists == {<<[i \in BigIds |-> "t1"], [i \in BigIds |-> m], [i \in BigIds |-> i]>> : m \in Metas}
AddLists == SmallLists \cup BigLists

\* embeddings = self.embedding_fn(documents), which may raise; docs = [...]
AddEmbed(documents, metadatas, ids) ==
  /\ CanCall
  /\ adapter # None
  /\ ops' = ops + 1
  /\ before' = store
  /\ calls' = <<Call("embedding_fn", documents)>>
  /\ UNCHANGED <<store, adapter, added>>
  /\ \E raises \in BOOLEAN :
       IF raises
       THEN /\ frame' = [op |-> "add", documents |-> documents, metadatas |-> metadatas,
                         ids |-> ids, docs |-> <<>>]
            /\ ret' = Ret("add", "EmbeddingError")
            /\ pc' = "returned"
       ELSE /\ frame' = [op |-> "add", documents |-> documents, metadatas |-> metadatas,
                         ids |-> ids,
                         docs |-> Zip(ids, documents, metadatas, embedding_fn(documents))]
            /\ ret' = Ret("add", "running")
            /\ pc' = "bulk"

\* The positions of the batch the store took.
Accepted(st, index, docs) == (1..Len(docs)) \ BulkErrors(st, index, docs)

\* The record of the most recent accepted position of each id of the batch.
LastAdded(old, docs, accepted) ==
  [i \in DOMAIN old \cup {docs[j].id : j \in accepted} |->
     IF \E j \in accepted : docs[j].id = i
     THEN docs[CHOOSE j \in accepted :
                 docs[j].id = i /\ \A k \in accepted : docs[k].id = i => k <= j].source
     ELSE old[i]]

\* bulk(self.client, docs): raises BulkIndexError when a document was rejected,
\* after the store has taken the others.
AddBulk ==
  /\ pc = "bulk"
  /\ store' = Bulk(store, es_index, frame.docs)
  /\ calls' = Append(calls, Call("bulk", frame.docs))
  /\ added' = IF frame.docs = <<>> THEN added
              ELSE [n \in DOMAIN added \cup {es_index} |->
                      IF n = es_index
                      THEN LastAdded(IF n \in DOMAIN added THEN added[n] ELSE NoDocs,
                                     frame.docs, Accepted(store, es_index, frame.docs))
                      ELSE added[n]]
  /\ IF BulkErrors(store, es_index, frame.docs) # {}
     THEN pc' = "returned" /\ ret' = Ret("add", "BulkIndexError")
     ELSE pc' = "refresh" /\ ret' = ret
  /\ UNCHANGED <<adapter, frame, before, ops>>

\* self.client.indices.refresh(index=self.es_index); return
AddRefresh ==
  /\ pc = "refresh"
  /\ calls' = Append(calls, Call("indices.refresh", es_index))
  /\ pc' = "returned"
  /\ IF IndicesExists(store, es_index)
     THEN store' = IndicesRefresh(store, es_index) /\ ret' = Ret("add", "ok")
     ELSE store' = store /\ ret' = Ret("add", "NotFoundError")
  /\ UNCHANGED <<adapter, frame, before, added, ops>>

\* The store refreshes an index by itself from time to time.
AutoRefresh ==
  /\ \E index \in DOMAIN store :
       /\ store[index].searchable # store[index].docs
       /\ store' = IndicesRefresh(store, index)
  /\ UNCHANGED <<adapter, pc, frame, before, calls, ret, added, ops>>

\* ------------------------------------------------------------ reset
Reset ==
  /\ CanCall
  /\ adapter # None
  /\ ops' = ops + 1
  /\ before' = store
  /\ frame' = [op |-> "reset"]
  /\ ret' = Ret("reset", "ok")
  /\ IF IndicesExists(store, es_index)
     THEN /\ store' = IndicesDelete(store, es_index)
          /\ added' = [n \in DOMAIN added \ {es_index} |-> added[n]]
          /\ calls' = <<Call("indices.exists", es_index), Call("indices.delete", es_index)>>
     ELSE /\ calls' = <<Call("indices.exists", es_index)>>
          /\ UNCHANGED <<store, added>>
  /\ pc' = "returned"
  /\ adapter' = adapter

\* The caller moves on: the finished call's frame and outcome are dropped.
Leave ==
  /\ pc = "returned"
  /\ pc' = "idle"
  /\ frame' = [op |-> "none"]
  /\ before' = [n \in {} |-> 0]
  /\ calls' = <<>>
  /\ ret' = Ret("none", "ok")
  /\ UNCHANGED <<store, adapter, added, ops>>

\* ------------------------------------------------------------ get, query, count
\* What a call may hand back: a value, or the error it raises.
Ok(value) == [status |-> "ok", value |-> value]
Raise(error) == [status |-> error]

\* get(ids, where): the set of the ids of the hits.
Get(ids, where) ==
  IF ~IndicesExists(store, es_index) THEN {Raise("NotFoundError")}
  ELSE {Ok(hits) : hits \in SearchDefault(GetMatches(store[es_index], ids, where))}

\* query(input_query, n_results, where): the texts of the hits, best first.
\* Only input_query[0]'s vector goes into the search.
\* Faulty variant: the vector of the last entry goes into the search.
QueryVectorLast(input_query) == embedding_fn(input_query)[Len(input_query)]

QueryVector(input_query) == embedding_fn(input_query)[1]

Query(input_query, n_results, where) ==
  {Raise("EmbeddingError")} \cup
  IF ~IndicesExists(store, es_index) THEN {Raise("NotFoundError")}
  ELSE LET index == store[es_index]
           matches == QueryMatches(index, where)
       IN IF matches # {} /\ ScriptFails(index, QueryVector(input_query))
          THEN {Raise("ScriptError")}
          ELSE {Ok([i \in 1..Len(hits) |-> index.searchable[hits[i]].text]) :
                  hits \in TopHits(index.searchable, matches, QueryVector(input_query),
                                   n_results)}

\* count(): response["count"] of match_all.
Count ==
  IF ~IndicesExists(store, es_index) THEN Raise("NotFoundError")
  ELSE Ok(Cardinality(DOMAIN store[es_index].searchable))

\* ------------------------------------------------------------ specification
Next ==
  \/ \E es_config \in Given, embedding_fn_arg \in Given,
        vector_dim \in VectorDims, collection_name \in CollectionNames :
       Construct(es_config, embedding_fn_arg, vector_dim, collection_name)
  \/ \E lists \in AddLists : AddEmbed(lists[1], lists[2], lists[3])
  \/ AddBulk
  \/ AddRefresh
  \/ AutoRefresh
  \/ Reset
  \/ Leave

Spec == Init /\ [][Next]_vars

\* ------------------------------------------------------------ inputs of the reads
Probes == SeqsUpTo(SmallIds \cup {UnknownId}, MaxBatch) \cup {BigProbe}
QueryLists == SeqsUpTo(Texts, MaxQueries) \ {<<>>}
Sizes == 0..MaxN

Returned(op, status) == pc = "returned" /\ ret = Ret(op, status)

\* The documents written to the adapter's index.
Written == store[es_index].docs

\* ------------------------------------------------------------ C7
\* C7: query uses only the first entry of input_query: on the same store, for
\* every non-empty list of queries, every n_results and every where, query may
\* hand back exactly what it may hand back for the list of the first entry alone.
\* (query reads the store and nothing else, and every content of the store is
\* also reached with no call in progress: the lists are compared there.)
C7_FirstQueryOnly ==
  pc = "idle" =>
  \A input_query \in QueryLists, n_results \in Sizes, where \in Wheres :
    Query(input_query, n_results, where) = Query(<<input_query[1]>>, n_results, where)

\* The same comparison in every state, calls in progress included.
FirstQueryOnlyEverywhere ==
  \A input_query \in QueryLists, n_results \in Sizes, where \in Wheres :
    Query(input_query, n_results, where) = Query(<<input_query[1]>>, n_results, where)

\* Two queries with different answers are stored side by side, and the list
\* of both is answered as its first entry is.
C7_Witness ==
  pc = "idle" /\
  \E input_query \in QueryLists :
    /\ Len(input_query) = 2
    /\ Query(<<input_query[1]>>, 1, EmptyMap) # Query(<<input_query[2]>>, 1, EmptyMap)
    /\ Query(input_query, 1, EmptyMap) = Query(<<input_query[1]>>, 1, EmptyMap)
    /\ \E out \in Query(input_query, 1, EmptyMap) : out.status = "ok" /\ Len(out.value) = 1

\* ------------------------------------------------------------ C1
\* The members of ids that are stored and, when where has app_id, owned by it.
StoredMatching(ids, where) ==
  {i \in Range(ids) :
     /\ i \in DOMAIN Written
     /\ "app_id" \in DOMAIN where =>
          /\ "app_id" \in DOMAIN Written[i].metadata
          /\ Written[i].metadata["app_id"] = where["app_id"]}

\* C1: after add has returned, get(ids, where) hands back exactly the members
\* of ids that are stored in the collection and, when where has the key
\* app_id, whose metadata app_id equals it, for ids of any length.
C1_GetReturnsStoredMatching ==
  Returned("add", "ok") =>
    \A ids \in Probes, where \in Wheres : Get(ids, where) = {Ok(StoredMatching(ids, where))}

\* What holds of get: the same, for as long as no more than DefaultSearchSize
\* stored documents match.
GetWithinDefaultSize ==
  Returned("add", "ok") =>
    \A ids \in Probes, where \in Wheres :
      Cardinality(StoredMatching(ids, where)) <= DefaultSearchSize =>
        Get(ids, where) = {Ok(StoredMatching(ids, where))}

\* ------------------------------------------------------------ C2
\* C2: reset() completes without error whether or not the index exists, and a
\* count() right after it returns 0.
C2_ResetThenCountZero ==
  (pc = "returned" /\ ret.op = "reset") => (ret.status = "ok" /\ Count = Ok(0))

\* ------------------------------------------------------------ C3
\* The stores hold the same indices with the same mappings and documents.
SameContent(a, b) ==
  /\ DOMAIN a = DOMAIN b
  /\ \A n \in DOMAIN a : a[n].mapping = b[n].mapping /\ a[n].docs = b[n].docs

ValidArgs(f) ==
  f.embedding_fn # None /\ f.es_config # None /\ f.vector_dim # None /\ f.collection_name # None

\* C3: constructing the adapter with a collection name and a vector dimension
\* never errors and leaves one index named "{collection_name}_{vector_dim}";
\* when that index is already there (a second or later construction), the
\* construction only checks that it exists: nothing is created, altered or
\* emptied, and the documents added in between remain.
C3_ConstructIdempotent ==
  (pc = "returned" /\ frame.op = "__init__" /\ ValidArgs(frame)) =>
    LET index == IndexName(frame.collection_name[1], frame.vector_dim[1])
    IN /\ ret.status = "ok"
       /\ es_index = index
       /\ Cardinality({n \in DOMAIN store : n = index}) = 1
       /\ IndicesExists(before, index) =>
            /\ calls = <<Call("indices.exists", index)>>
            /\ SameContent(store, before)

\* A second construction, after an add: only the existence check, documents kept.
C3_Witness ==
  /\ pc = "returned" /\ frame.op = "__init__" /\ ret.status = "ok"
  /\ ops > 0
  /\ calls = <<Call("indices.exists", es_index)>>
  /\ Written # NoDocs
  /\ SameContent(store, before)

\* ------------------------------------------------------------ C4
\* C4: construction fails with a configuration error, before any call to the
\* store and without creating an index, when embedding_fn is not callable,
\* es_config, vector_dim or collection_name is missing, or collection_name is
\* the empty string.
C4_InvalidConfigRaises ==
  (/\ pc = "returned" /\ frame.op = "__init__"
   /\ \/ ~ValidArgs(frame)
      \/ frame.collection_name = Some("")) =>
    /\ ret.status = "ValueError"
    /\ calls = <<>>
    /\ SameContent(store, before)

\* What holds of __init__: a missing argument raises before any call.
MissingArgRaises ==
  (pc = "returned" /\ frame.op = "__init__" /\ ~ValidArgs(frame)) =>
    (ret.status = "ValueError" /\ calls = <<>> /\ SameContent(store, before))

\* ------------------------------------------------------------ C5
\* C5: add has upsert semantics.  An id that is already stored raises no error
\* (the bulk write raises only for a document the mapping rejects), and after
\* add has returned count() is the number of distinct ids added since the
\* index was created and each id holds the record of its most recent add.
C5_AddUpserts ==
  /\ Returned("add", "BulkIndexError") =>
       \E j \in 1..Len(frame.docs) :
         Len(frame.docs[j].source.embeddings) # adapter[1].vector_dim
  /\ Returned("add", "ok") =>
       /\ Count = Ok(Cardinality(DOMAIN added[es_index]))
       /\ Written = added[es_index]
       /\ store[es_index].searchable = added[es_index]

\* An add that returned after replacing a stored record by a different one.
C5_Witness ==
  /\ Returned("add", "ok")
  /\ \E j \in 1..Len(frame.docs) :
       /\ IndicesExists(before, es_index)
       /\ frame.docs[j].id \in DOMAIN before[es_index].docs
       /\ before[es_index].docs[frame.docs[j].id] # Written[frame.docs[j].id]
       /\ Count = Ok(Cardinality(DOMAIN before[es_index].docs))

\* ------------------------------------------------------------ C6
\* The texts of the documents query's search may score.
MatchingTexts(where) ==
  {store[es_index].searchable[i].text : i \in QueryMatches(store[es_index], where)}

\* out is at most n texts of stored documents that match where, the more
\* similar to q's embedding first.
TopN(out, q, n, where) ==
  /\ out.status = "ok"
  /\ Len(out.value) <= n
  /\ \A k \in 1..Len(out.value) : out.value[k] \in MatchingTexts(where)
  /\ \A k \in 1..(Len(out.value) - 1) :
       ScoreLE(Embed(q), Embed(out.value[k + 1]), Embed(out.value[k]))

\* The query texts whose vector has the adapter's dimension.
FittingTexts == {q \in Texts : Len(Embed(q)) = adapter[1].vector_dim}

\* C6: in every state of the store, for every query text q, n >= 0 and where,
\* query([q], n, where) (its embedding computed) hands back at most n texts of
\* stored documents matching where, in non-increasing order of cosine
\* similarity to q's embedding, and an empty sequence, not an error, when the
\* collection holds nothing.
C6_QueryTopN ==
  \A q \in FittingTexts, n \in Sizes, where \in Wheres :
    \A out \in Query(<<q>>, n, where) \ {Raise("EmbeddingError")} :
      /\ TopN(out, q, n, where)
      /\ (~IndicesExists(store, es_index) \/ store[es_index].searchable = NoDocs)
           => out = Ok(<<>>)

\* What holds of query: the same, while the index exists with the mapping
\* __init__ gave it.
QueryTopNOnIndex ==
  (IndicesExists(store, es_index) /\ store[es_index].mapping.type = "dense_vector") =>
    \A q \in FittingTexts, n \in Sizes, where \in Wheres :
      \A out \in Query(<<q>>, n, where) \ {Raise("EmbeddingError")} :
        /\ TopN(out, q, n, where)
        /\ store[es_index].searchable = NoDocs => out = Ok(<<>>)

\* ------------------------------------------------------------ C8
\* C8: a batch is all-or-nothing: when embedding_fn fails or the bulk write
\* rejects a record of the batch, add raises and the collection holds what it
\* held before the add.
C8_AddAllOrNothing ==
  (/\ pc = "returned" /\ frame.op = "add"
   /\ \/ ret.status = "EmbeddingError"
      \/ BulkErrors(before, es_index, frame.docs) # {}) =>
    /\ ret.status # "ok"
    /\ SameContent(store, before)

\* What holds of add: a failing embedding_fn leaves the store as it was, and a
\* rejected record makes add raise.
AddRaises ==
  /\ Returned("add", "EmbeddingError") => SameContent(store, before)
  /\ (pc = "returned" /\ frame.op = "add" /\ BulkErrors(before, es_index, frame.docs) # {})
       => ret.status \in {"EmbeddingError", "BulkIndexError"}

\* ------------------------------------------------------------ C9
Distinct(s) == \A i, j \in 1..Len(s) : s[i] = s[j] => i = j

\* C9: for documents, metadatas and ids of equal length k with distinct ids,
\* an add that returns has called embedding_fn once on the whole batch, then
\* written k records in one bulk call, then refreshed the index, in that
\* order, and the collection holds under ids[i] the text documents[i], the
\* metadata metadatas[i] and the embedding embedding_fn(documents)[i].
C9_AddStoresEachItem ==
  (/\ Returned("add", "ok")
   /\ Len(frame.documents) = Len(frame.ids)
   /\ Len(frame.metadatas) = Len(frame.ids)
   /\ Distinct(frame.ids)) =>
    /\ Len(calls) = 3
    /\ calls[1] = Call("embedding_fn", frame.documents)
    /\ calls[2].call = "bulk" /\ Len(calls[2].arg) = Len(frame.ids)
    /\ calls[3] = Call("indices.refresh", es_index)
    /\ \A i \in 1..Len(frame.ids) :
         /\ frame.ids[i] \in DOMAIN store[es_index].searchable
         /\ store[es_index].searchable[frame.ids[i]] =
              [text |-> frame.documents[i], metadata |-> frame.metadatas[i],
               embeddings |-> embedding_fn(frame.documents)[i]]

\* An add of two items, different in id, text and metadata, that returned.
C9_Witness ==
  /\ Returned("add", "ok")
  /\ Len(frame.ids) = 2 /\ Len(frame.documents) = 2 /\ Len(frame.metadatas) = 2
  /\ frame.ids[1] # frame.ids[2]
  /\ frame.documents[1] # frame.documents[2]
  /\ frame.metadatas[1] # frame.metadatas[2]
  /\ Len(calls) = 3

\* ------------------------------------------------------------ C10
\* get and query find the record written under id.
Observed(id) ==
  /\ Get(<<id>>, EmptyMap) = {Ok({id})}
  /\ id \in QueryMatches(store[es_index], EmptyMap)
  /\ store[es_index].searchable[id] = Written[id]

\* C10: add is not atomic for a concurrent reader.  A get or query issued
\* after add has returned finds every item add wrote; one issued between add's
\* bulk write and its refresh may not (the witness).
C10_ReadsAfterAddSeeItems ==
  Returned("add", "ok") => \A j \in 1..Len(frame.docs) : Observed(frame.docs[j].id)

\* Between the bulk write and the refresh: an item is written, and get does
\* not find it.
C10_Witness ==
  /\ pc = "refresh"
  /\ \E j \in 1..Len(frame.docs) :
       /\ frame.docs[j].id \in DOMAIN Written
       /\ Get(<<frame.docs[j].id>>, EmptyMap) = {Ok({})}
       /\ frame.docs[j].id \notin QueryMatches(store[es_index], EmptyMap)

====
